---- MODULE Spec2Model ----
(***************************************************************************)
(* Model of src/index.js (second, complete copy of the script, lines       *)
(* 141-333): the batch illustration generator.  Strings are sequences of   *)
(* character tokens ("SP" a space, "NL" a line feed, "COMMA" a Western     *)
(* comma, "FWCOMMA" the full-width comma, "DOLLAR" and "AMP" the           *)
(* characters $ and &).                                                    *)
(***************************************************************************)
EXTENDS Integers, Sequences, FiniteSets, TLC

VARIABLES
    pc,            \* position of the script / of main()
    apiKey,        \* process.env.ZHIPU_API_KEY
    inputReadable, \* whether ingredients.txt can be read
    text,          \* contents of ingredients.txt
    refImage,      \* state of style_reference.jpg
    outDirExists,  \* whether the output directory exists
    ingredients,   \* result of readIngredients()
    clock,         \* wall clock, in whole seconds
    token,         \* payload of the signed token
    stylePrompt,   \* main's stylePrompt
    styleFailed,   \* a failure happened on the style path (history)
    styleCalls,    \* number of style-analysis requests issued (history)
    idx,           \* 1-based index of the item the loop is at (0: none yet)
    status,        \* per item: "pending", "completed", "gen_failed" (caught
                   \* with no result url), "dl_failed" (caught, url known)
    prompts,       \* prompts sent to the generation endpoint, in order
    imageUrl,      \* response.data.data[0].url of the current item
    files,         \* output/<name>.png per primary name
    fileBefore,    \* files[name] when the current item's iteration began
    writer,        \* the current download's write stream
    pendingOpens,  \* write streams abandoned while their open was pending
    inflight,      \* network requests issued and not yet settled
    exitCode       \* process exit status once it is decided

vars == <<pc, apiKey, inputReadable, text, refImage, outDirExists, ingredients,
          clock, token, stylePrompt, styleFailed, styleCalls, idx, status,
          prompts, imageUrl, files, fileBefore, writer, pendingOpens, inflight,
          exitCode>>

----------------------------------------------------------------------------
\* Bounds of the model

\* lines of an input file of a run
MaxLines == 2
\* characters of an input file of the text pipeline
MaxTextLen == 5

\* JavaScript's undefined / null, as a string value no input can equal
Null == <<"null">>
Undefined == <<"undefined">>

Truthy(s) == s # Null /\ s # Undefined /\ s # <<>>

SeqsUpTo(S, n) == UNION {[1..k -> S] : k \in 0..n}

----------------------------------------------------------------------------
\* String primitives

WhiteSpace == {"SP", "TAB", "CR", "NL"}

RECURSIVE TrimStart(_)
TrimStart(s) ==
    IF s # <<>> /\ Head(s) \in WhiteSpace THEN TrimStart(Tail(s)) ELSE s

RECURSIVE TrimEnd(_)
TrimEnd(s) ==
    IF s # <<>> /\ s[Len(s)] \in WhiteSpace
    THEN TrimEnd(SubSeq(s, 1, Len(s) - 1))
    ELSE s

\* String.prototype.trim
Trim(s) == TrimEnd(TrimStart(s))

\* String.prototype.split on any one of the separator characters
RECURSIVE Split(_, _)
Split(s, seps) ==
    IF \E i \in 1..Len(s) : s[i] \in seps
    THEN LET i == CHOOSE k \in 1..Len(s) :
                      s[k] \in seps /\ \A j \in 1..(k - 1) : s[j] \notin seps
         IN <<SubSeq(s, 1, i - 1)>> \o Split(SubSeq(s, i + 1, Len(s)), seps)
    ELSE <<s>>

RECURSIVE MapTrim(_)
MapTrim(ls) ==
    IF ls = <<>> THEN <<>> ELSE <<Trim(Head(ls))>> \o MapTrim(Tail(ls))

RECURSIVE FilterNonEmpty(_)
FilterNonEmpty(ls) ==
    IF ls = <<>> THEN <<>>
    ELSE IF Len(Head(ls)) > 0
         THEN <<Head(ls)>> \o FilterNonEmpty(Tail(ls))
         ELSE FilterNonEmpty(Tail(ls))

\* A plausible slip: the empty-line filter applied before the trim
readIngredients_FilterFirst(data) == MapTrim(FilterNonEmpty(Split(data, {"NL"})))

\* readIngredients, the success path: split, trim, drop empty lines
readIngredients(data) == FilterNonEmpty(MapTrim(Split(data, {"NL"})))

\* line.split(/,|，/)
Parts(line) == Split(line, {"COMMA", "FWCOMMA"})

\* parts[0].trim()
IngredientEn(line) == Trim(Parts(line)[1])

\* parts.length > 1 ? parts[1].trim() : ''
IngredientCn(line) ==
    IF Len(Parts(line)) > 1 THEN Trim(Parts(line)[2]) ELSE <<>>

----------------------------------------------------------------------------
\* The prompt

TemplateHead == "A flat illustration of "
Placeholder == "{ingredient}"
TemplateTail == ", centered, clean white background, simple style, no text, no watermark, high quality, for mobile app UI"

DEFAULT_PROMPT_TEMPLATE == <<TemplateHead, Placeholder, TemplateTail>>

\* The replacement text of String.prototype.replace(string, string): the
\* patterns $$, $&, $` and $' are expanded, every other character is copied.
RECURSIVE Expand(_, _, _, _)
Expand(r, matched, before, after) ==
    IF r = <<>> THEN <<>>
    ELSE IF Head(r) = "DOLLAR" /\ Len(r) >= 2 /\ r[2] = "DOLLAR"
         THEN <<"DOLLAR">> \o Expand(SubSeq(r, 3, Len(r)), matched, before, after)
    ELSE IF Head(r) = "DOLLAR" /\ Len(r) >= 2 /\ r[2] = "AMP"
         THEN matched \o Expand(SubSeq(r, 3, Len(r)), matched, before, after)
    ELSE IF Head(r) = "DOLLAR" /\ Len(r) >= 2 /\ r[2] = "BACKTICK"
         THEN before \o Expand(SubSeq(r, 3, Len(r)), matched, before, after)
    ELSE IF Head(r) = "DOLLAR" /\ Len(r) >= 2 /\ r[2] = "QUOTE"
         THEN after \o Expand(SubSeq(r, 3, Len(r)), matched, before, after)
    ELSE <<Head(r)>> \o Expand(Tail(r), matched, before, after)

\* s.replace(pat, r) for a one-token pattern: the first occurrence only
Replace(s, pat, r) ==
    IF \E i \in 1..Len(s) : s[i] = pat
    THEN LET i == CHOOSE k \in 1..Len(s) :
                      s[k] = pat /\ \A j \in 1..(k - 1) : s[j] # pat
             before == SubSeq(s, 1, i - 1)
             after == SubSeq(s, i + 1, Len(s))
         IN before \o Expand(r, <<pat>>, before, after) \o after
    ELSE s

\* main, the prompt of one item
BuildPrompt(ingredientEn, style) ==
    IF Truthy(style)
    THEN ingredientEn \o <<"COMMA", "SP">> \o style
    ELSE Replace(DEFAULT_PROMPT_TEMPLATE, Placeholder, ingredientEn)

----------------------------------------------------------------------------
\* The style path

StyleLabels == {"Style description:", "STYLE DESCRIPTION:", "style description:"}

\* content.replace(/^Style description:/i, '')
StripLabel(content) ==
    IF content # <<>> /\ Head(content) \in StyleLabels THEN Tail(content) ELSE content

\* What the vision endpoint can answer: a rejected request (network error or
\* non-success status), a reply without choices[0].message.content, or a
\* textual completion.
StyleReplies ==
    { [kind |-> "reject", content |-> <<>>],
      [kind |-> "malformed", content |-> <<>>],
      [kind |-> "ok", content |-> <<"Style description:", "SP", "s", "SP">>],
      [kind |-> "ok", content |-> <<"STYLE DESCRIPTION:", "SP">>] }

\* analyzeImageStyle, the value it returns for a reply
analyzeImageStyle(reply) ==
    IF reply.kind = "ok" THEN Trim(StripLabel(reply.content)) ELSE Null

----------------------------------------------------------------------------
\* The credential

\* !API_KEY || !API_KEY.includes('.')
ApiKeyRejected(k) ==
    \/ k = Undefined
    \/ k = <<>>
    \/ ~ \E i \in 1..Len(k) : k[i] = "."

KeyId(k) == Split(k, {"."})[1]

\* const [id, secret] = apiKey.split('.')
KeySecret(k) == IF Len(Split(k, {"."})) > 1 THEN Split(k, {"."})[2] ELSE Undefined

TTL_DEFAULT == 3600

\* generateToken's payload from its two clock reads
Payload(k, expSeconds, now1, now2) ==
    [api_key |-> KeyId(k), exp |-> now1 + expSeconds, timestamp |-> now2]

NoToken == [api_key |-> Null, exp |-> 0, timestamp |-> 0]

\* Whole seconds by which the clock can have advanced between the two
\* Date.now() calls of generateToken: none, or one second boundary crossed
ClockDrift == {0, 1}

----------------------------------------------------------------------------
\* The run of the script

\* The lines an input file of the run is made of
LineSet ==
    { <<"a">>, <<"SP", "a", "COMMA", "b">>, <<"FWCOMMA", "b">>, <<"SP">> }

RECURSIVE Join(_)
Join(ls) ==
    IF ls = <<>> THEN <<>>
    ELSE IF Len(ls) = 1 THEN Head(ls)
    ELSE Head(ls) \o <<"NL">> \o Join(Tail(ls))

InputTexts == {Join(ls) : ls \in SeqsUpTo(LineSet, MaxLines)}

ApiKeys == {Undefined, <<>>, <<"i", "s">>, <<"i", ".", "s">>, <<"i", ".">>}

AllNames == {IngredientEn(Trim(l)) : l \in LineSet}

Init ==
    /\ pc = "boot"
    /\ apiKey \in ApiKeys
    /\ inputReadable \in BOOLEAN
    /\ text \in InputTexts
    /\ refImage \in {"absent", "unreadable", "empty", "ok"}
    /\ outDirExists \in BOOLEAN
    /\ ingredients = <<>>
    /\ clock = 0
    /\ token = NoToken
    /\ stylePrompt = Null
    /\ styleFailed = FALSE
    /\ styleCalls = 0
    /\ idx = 0
    /\ status = <<>>
    /\ prompts = <<>>
    /\ imageUrl = "none"
    /\ files = [n \in AllNames |-> "absent"]
    /\ fileBefore = "absent"
    /\ writer = "none"
    /\ pendingOpens = {}
    /\ inflight = {}
    /\ exitCode = -1

\* process.exit(1)
Exit1 == pc' = "exited" /\ exitCode' = 1

\* An exception nothing catches (an 'error' event without a listener, or a
\* rejection of main()'s promise): the process dies
Crash == pc' = "crashed" /\ exitCode' = 1

\* lines 155-159 and 333: the credential check at load, then main()
CheckApiKey ==
    /\ pc = "boot"
    /\ IF ApiKeyRejected(apiKey) THEN Exit1 ELSE pc' = "main" /\ UNCHANGED exitCode
    /\ UNCHANGED <<apiKey, inputReadable, text, refImage, outDirExists,
                   ingredients, clock, token, stylePrompt, styleFailed,
                   styleCalls, idx, status, prompts, imageUrl, files, fileBefore,
                   writer, pendingOpens, inflight>>

\* lines 263-265
EnsureOutputDir ==
    /\ pc = "main"
    /\ pc' = "read"
    /\ outDirExists' = TRUE
    /\ UNCHANGED <<apiKey, inputReadable, text, refImage, ingredients, clock,
                   token, stylePrompt, styleFailed, styleCalls, idx, status,
                   prompts, imageUrl, files, fileBefore, writer, pendingOpens,
                   inflight, exitCode>>

\* A plausible slip: an unreadable input file yields an empty list
ReadIngredientsStep_NoExit ==
    /\ pc = "read"
    /\ pc' = "token"
    /\ ingredients' = IF inputReadable THEN readIngredients(text) ELSE <<>>
    /\ status' = [i \in 1..Len(ingredients') |-> "pending"]
    /\ UNCHANGED <<apiKey, inputReadable, text, refImage, outDirExists, clock,
                   token, stylePrompt, styleFailed, styleCalls, idx, prompts,
                   imageUrl, files, fileBefore, writer, pendingOpens, inflight,
                   exitCode>>

\* lines 267-268 with 177-187
ReadIngredientsStep ==
    /\ pc = "read"
    /\ IF inputReadable
       THEN /\ ingredients' = readIngredients(text)
            /\ status' = [i \in 1..Len(ingredients') |-> "pending"]
            /\ pc' = "token"
            /\ UNCHANGED exitCode
       ELSE /\ Exit1
            /\ UNCHANGED <<ingredients, status>>
    /\ UNCHANGED <<apiKey, inputReadable, text, refImage, outDirExists, clock,
                   token, stylePrompt, styleFailed, styleCalls, idx, prompts,
                   imageUrl, files, fileBefore, writer, pendingOpens, inflight>>

\* line 270 with 162-174: Date.now() is read twice, for exp and then for
\* timestamp; jwt.sign throws on a missing or empty secret, which rejects
\* main()'s promise
GenerateTokenStep ==
    /\ pc = "token"
    /\ IF Truthy(KeySecret(apiKey))
       THEN /\ \E now2 \in {clock + d : d \in ClockDrift} :
                   /\ token' = Payload(apiKey, TTL_DEFAULT, clock, now2)
                   /\ clock' = now2
            /\ pc' = "refimg"
            /\ UNCHANGED exitCode
       ELSE /\ Crash
            /\ UNCHANGED <<token, clock>>
    /\ UNCHANGED <<apiKey, inputReadable, text, refImage, outDirExists,
                   ingredients, stylePrompt, styleFailed, styleCalls, idx, status,
                   prompts, imageUrl, files, fileBefore, writer, pendingOpens,
                   inflight>>

\* lines 277-282 with 190-200 and the request of 203-230
GetReferenceImage ==
    /\ pc = "refimg"
    /\ IF refImage = "ok"
       THEN /\ inflight' = inflight \cup {<<"style", 0>>}
            /\ styleCalls' = styleCalls + 1
            /\ pc' = "style_wait"
            /\ UNCHANGED <<stylePrompt, styleFailed>>
       ELSE /\ stylePrompt' = Null
            /\ styleFailed' = (refImage = "unreadable")
            /\ pc' = "loop"
            /\ UNCHANGED <<inflight, styleCalls>>
    /\ UNCHANGED <<apiKey, inputReadable, text, refImage, outDirExists,
                   ingredients, clock, token, idx, status, prompts, imageUrl,
                   files, fileBefore, writer, pendingOpens, exitCode>>

\* lines 232-240 and 281-286: the analysis request settles
AnalyzeSettle ==
    /\ pc = "style_wait"
    /\ \E reply \in StyleReplies :
          /\ stylePrompt' = analyzeImageStyle(reply)
          /\ styleFailed' = (reply.kind # "ok")
    /\ inflight' = inflight \ {<<"style", 0>>}
    /\ pc' = "loop"
    /\ UNCHANGED <<apiKey, inputReadable, text, refImage, outDirExists,
                   ingredients, clock, token, styleCalls, idx, status,
                   prompts, imageUrl, files, fileBefore, writer, pendingOpens,
                   exitCode>>

\* The primary name of item i
NameOf(i) == IngredientEn(ingredients[i])

\* lines 288-314: the next item's prompt and generation request, or the end
\* of main
LoopNext ==
    /\ pc = "loop"
    /\ IF idx < Len(ingredients)
       THEN /\ idx' = idx + 1
            /\ prompts' = Append(prompts, BuildPrompt(NameOf(idx + 1), stylePrompt))
            /\ fileBefore' = files[NameOf(idx + 1)]
            /\ inflight' = inflight \cup {<<"gen", idx + 1>>}
            /\ imageUrl' = "none"
            /\ pc' = "gen_wait"
            /\ UNCHANGED exitCode
       ELSE /\ pc' = "done"
            /\ exitCode' = 0
            /\ UNCHANGED <<idx, prompts, fileBefore, inflight, imageUrl>>
    /\ UNCHANGED <<apiKey, inputReadable, text, refImage, outDirExists,
                   ingredients, clock, token, stylePrompt, styleFailed,
                   styleCalls, status, files, writer, pendingOpens>>

\* lines 324-329: the per-item catch
CatchItem ==
    /\ status' = [status EXCEPT ![idx] =
                     IF imageUrl = "url" THEN "dl_failed" ELSE "gen_failed"]
    /\ imageUrl' = "none"
    /\ pc' = "loop"

\* A plausible slip: downloadImage called without await
StartDownload_NoAwait ==
    /\ writer' = "opening"
    /\ inflight' = (inflight \ {<<"gen", idx>>}) \cup {<<"get", idx>>}
    /\ status' = [status EXCEPT ![idx] = "completed"]
    /\ pc' = "loop"

\* lines 318-321 with 245-250: the write stream is created, the GET is
\* issued and awaited
StartDownload ==
    /\ writer' = "opening"
    /\ inflight' = (inflight \ {<<"gen", idx>>}) \cup {<<"get", idx>>}
    /\ pc' = "get_wait"
    /\ UNCHANGED status

\* lines 309-321: the generation request settles: rejected (network error or
\* non-success status), answered without data[0] (a TypeError at line 316),
\* answered with a data[0] that has no url, or answered with a url
GenSettle ==
    /\ pc = "gen_wait"
    /\ \E outcome \in {"reject", "noData", "noUrl", "ok"} :
          IF outcome \in {"reject", "noData"}
          THEN /\ CatchItem
               /\ inflight' = inflight \ {<<"gen", idx>>}
               /\ UNCHANGED writer
          ELSE /\ imageUrl' = IF outcome = "ok" THEN "url" ELSE "undefined"
               /\ StartDownload
    /\ UNCHANGED <<apiKey, inputReadable, text, refImage, outDirExists,
                   ingredients, clock, token, stylePrompt, styleFailed,
                   styleCalls, idx, prompts, files, fileBefore, pendingOpens,
                   exitCode>>

\* line 245: the stream's file is opened with flag 'w', which creates it or
\* truncates it
WriterOpened ==
    /\ pc \in {"get_wait", "piping"}
    /\ writer = "opening"
    /\ writer' = "open"
    /\ files' = [files EXCEPT ![NameOf(idx)] = "partial"]
    /\ UNCHANGED <<pc, apiKey, inputReadable, text, refImage, outDirExists,
                   ingredients, clock, token, stylePrompt, styleFailed,
                   styleCalls, idx, status, prompts, imageUrl, fileBefore,
                   pendingOpens, inflight, exitCode>>

\* lines 245-250: the open of the stream's file fails while the GET is
\* awaited; the 'error' listener of line 256 is not attached yet
WriterErrorEarly ==
    /\ pc = "get_wait"
    /\ writer = "opening"
    /\ Crash
    /\ UNCHANGED <<apiKey, inputReadable, text, refImage, outDirExists,
                   ingredients, clock, token, stylePrompt, styleFailed,
                   styleCalls, idx, status, prompts, imageUrl, files, fileBefore,
                   writer, pendingOpens, inflight>>

\* lines 246-250 and 324: the GET is rejected; the stream of line 245 is left
\* as it is
GetReject ==
    /\ pc = "get_wait"
    /\ CatchItem
    /\ inflight' = inflight \ {<<"get", idx>>}
    /\ pendingOpens' = IF writer = "opening"
                       THEN pendingOpens \cup {NameOf(idx)}
                       ELSE pendingOpens
    /\ writer' = "none"
    /\ UNCHANGED <<apiKey, inputReadable, text, refImage, outDirExists,
                   ingredients, clock, token, stylePrompt, styleFailed,
                   styleCalls, idx, prompts, files, fileBefore,
                   exitCode>>

\* lines 252-257: the response arrives, its body is piped and the listeners
\* are attached (a GET of an undefined url gets no response)
GetResponse ==
    /\ pc = "get_wait"
    /\ imageUrl = "url"
    /\ inflight' = inflight \ {<<"get", idx>>}
    /\ pc' = "piping"
    /\ UNCHANGED <<apiKey, inputReadable, text, refImage, outDirExists,
                   ingredients, clock, token, stylePrompt, styleFailed,
                   styleCalls, idx, status, prompts, imageUrl, files, fileBefore,
                   writer, pendingOpens, exitCode>>

\* lines 255 and 322: 'finish'
WriterFinish ==
    /\ pc = "piping"
    /\ writer = "open"
    /\ files' = [files EXCEPT ![NameOf(idx)] = "complete"]
    /\ status' = [status EXCEPT ![idx] = "completed"]
    /\ writer' = "none"
    /\ imageUrl' = "none"
    /\ pc' = "loop"
    /\ UNCHANGED <<apiKey, inputReadable, text, refImage, outDirExists,
                   ingredients, clock, token, stylePrompt, styleFailed,
                   styleCalls, idx, prompts, fileBefore, pendingOpens,
                   inflight, exitCode>>

\* lines 256 and 324: 'error' of the write stream (its open or a write
\* fails) with the listener attached
WriterError ==
    /\ pc = "piping"
    /\ CatchItem
    /\ writer' = "none"
    /\ UNCHANGED <<apiKey, inputReadable, text, refImage, outDirExists,
                   ingredients, clock, token, stylePrompt, styleFailed,
                   styleCalls, idx, prompts, files, fileBefore,
                   pendingOpens, inflight, exitCode>>

\* line 252: the response body errors or closes before its end.  pipe() does
\* not forward that to the write stream, so neither listener of lines 255-256
\* fires: the 'error' event of the body has no listener and kills the
\* process, or (a close without 'error') the promise stays pending and the
\* process ends with the loop abandoned.
ResponseStreamError ==
    /\ pc = "piping"
    /\ \/ Crash
       \/ pc' = "stalled" /\ exitCode' = 0
    /\ UNCHANGED <<apiKey, inputReadable, text, refImage, outDirExists,
                   ingredients, clock, token, stylePrompt, styleFailed,
                   styleCalls, idx, status, prompts, imageUrl, files, fileBefore,
                   writer, pendingOpens, inflight>>

\* line 245, after GetReject: the abandoned stream's open completes
PendingOpenDone ==
    /\ pc \notin {"crashed", "exited"}
    /\ \E n \in pendingOpens :
          /\ pendingOpens' = pendingOpens \ {n}
          /\ files' = [files EXCEPT ![n] = "partial"]
    /\ UNCHANGED <<pc, apiKey, inputReadable, text, refImage, outDirExists,
                   ingredients, clock, token, stylePrompt, styleFailed,
                   styleCalls, idx, status, prompts, imageUrl, fileBefore, writer,
                   inflight, exitCode>>

\* line 245, after GetReject: the abandoned stream's open fails; its 'error'
\* has no listener
PendingOpenFail ==
    /\ pc \notin {"crashed", "exited"}
    /\ pendingOpens # {}
    /\ Crash
    /\ UNCHANGED <<apiKey, inputReadable, text, refImage, outDirExists,
                   ingredients, clock, token, stylePrompt, styleFailed,
                   styleCalls, idx, status, prompts, imageUrl, files, fileBefore,
                   writer, pendingOpens, inflight>>

Next ==
    \/ CheckApiKey
    \/ EnsureOutputDir
    \/ ReadIngredientsStep
    \/ GenerateTokenStep
    \/ GetReferenceImage
    \/ AnalyzeSettle
    \/ LoopNext
    \/ GenSettle
    \/ WriterOpened
    \/ WriterErrorEarly
    \/ GetReject
    \/ GetResponse
    \/ WriterFinish
    \/ WriterError
    \/ ResponseStreamError
    \/ PendingOpenDone
    \/ PendingOpenFail

Spec == Init /\ [][Next]_vars

----------------------------------------------------------------------------
\* The text pipeline of main alone (loader, item parsing, prompt), over
\* every input text of a bounded length

TextAlphabet == {"a", "SP", "NL", "COMMA", "DOLLAR"}

InitText ==
    /\ pc = "t_read"
    /\ apiKey = <<"i", ".", "s">>
    /\ inputReadable = TRUE
    /\ text \in SeqsUpTo(TextAlphabet, MaxTextLen)
    /\ refImage = "absent"
    /\ outDirExists = TRUE
    /\ ingredients = <<>>
    /\ clock = 0
    /\ token = NoToken
    /\ stylePrompt \in {analyzeImageStyle(r) : r \in StyleReplies}
    /\ styleFailed = FALSE
    /\ styleCalls = 0
    /\ idx = 0
    /\ status = <<>>
    /\ prompts = <<>>
    /\ imageUrl = "none"
    /\ files = [n \in AllNames |-> "absent"]
    /\ fileBefore = "absent"
    /\ writer = "none"
    /\ pendingOpens = {}
    /\ inflight = {}
    /\ exitCode = -1

\* lines 177-182: the loader on a readable file
TextRead ==
    /\ pc = "t_read"
    /\ ingredients' = readIngredients(text)
    /\ pc' = "t_loop"
    /\ UNCHANGED <<apiKey, inputReadable, text, refImage, outDirExists, clock,
                   token, stylePrompt, styleFailed, styleCalls, idx, status,
                   prompts, imageUrl, files, fileBefore, writer, pendingOpens,
                   inflight, exitCode>>

\* lines 288-306: the prompt of the next item
TextPrompt ==
    /\ pc = "t_loop"
    /\ idx < Len(ingredients)
    /\ idx' = idx + 1
    /\ prompts' = Append(prompts, BuildPrompt(NameOf(idx + 1), stylePrompt))
    /\ UNCHANGED <<pc, apiKey, inputReadable, text, refImage, outDirExists,
                   ingredients, clock, token, stylePrompt, styleFailed,
                   styleCalls, status, imageUrl, files, fileBefore, writer,
                   pendingOpens, inflight, exitCode>>

NextText ==
    \/ TextRead
    \/ TextPrompt

SpecText == InitText /\ [][NextText]_vars

----------------------------------------------------------------------------
\* Properties

Items == 1..Len(ingredients)

Failed(i) == status[i] \in {"gen_failed", "dl_failed"}

\* main() has returned or the process has died
RunEnded == pc \in {"done", "crashed", "stalled"}

\* C1: when main() returns from a run whose only failures were generation
\* failures (a rejected request, or a success response with no result url),
\* every item has been attempted and output/<PrimaryName>.png is written in
\* full for every item whose own generation and download succeeded.
C1_GenerationFailureIsolated ==
    (pc = "done" /\ \A i \in Items : status[i] # "dl_failed")
        => \A i \in Items :
              /\ status[i] # "pending"
              /\ status[i] = "completed" => files[NameOf(i)] = "complete"

\* C2: once the loop has started, the run ends with every item completed or
\* logged as failed by the per-item handler, however a download fails: the
\* process neither dies of an uncaught error nor ends with an item pending.
C2_EveryItemTerminal ==
    (RunEnded /\ idx >= 1)
        => /\ pc = "done"
           /\ \A i \in Items : status[i] = "completed" \/ Failed(i)

\* A startup check fails: the credential is missing, empty or without '.',
\* or the input file cannot be read
FatalStartup == ApiKeyRejected(apiKey) \/ ~inputReadable

\* C3: if the credential is missing, empty or has no '.', or the input file
\* cannot be read, the process gets no further than the failing check, which
\* it always reaches and where it exits with status 1: no style-analysis,
\* generation or download request is ever issued and no item is processed.
C3_FatalStartupBeforeNetwork ==
    FatalStartup
        => /\ pc \in (IF ApiKeyRejected(apiKey)
                      THEN {"boot", "exited"}
                      ELSE {"boot", "main", "read", "exited"})
           /\ pc = "exited" => exitCode = 1
           /\ pc # "exited" => ENABLED Next
           /\ styleCalls = 0
           /\ inflight = {}
           /\ idx = 0
           /\ prompts = <<>>
           /\ \A n \in AllNames : files[n] = "absent"

\* C3 witness: a valid credential, an unreadable input file, exit status 1
C3_Witness ==
    /\ pc = "exited"
    /\ exitCode = 1
    /\ ~ApiKeyRejected(apiKey)
    /\ ~inputReadable

\* C4: after any failure on the style path the style descriptor is absent and
\* the run ends with every item of the input list processed, each with the
\* prompt built from the default template.
C4_StyleFailureNeverAborts ==
    (styleFailed /\ RunEnded)
        => /\ stylePrompt = Null
           /\ \A i \in Items :
                 /\ status[i] # "pending"
                 /\ i <= Len(prompts)
                 /\ prompts[i] = Replace(DEFAULT_PROMPT_TEMPLATE, Placeholder, NameOf(i))

\* C5: when an item's generation call or download has failed, the file at
\* output/<PrimaryName>.png is as it was before the item was processed:
\* neither created nor modified.
C5_FailedItemLeavesNoFile ==
    (pc = "loop" /\ idx >= 1 /\ Failed(idx))
        => files[NameOf(idx)] = fileBefore

\* The default template with the placeholder replaced by n taken literally
LiteralPrompt(n) == <<TemplateHead>> \o n \o <<TemplateTail>>

\* C6: every prompt is the item's primary name, ", " and the style descriptor
\* of the run when one was obtained, and otherwise the default template with
\* {ingredient} replaced by the primary name taken literally.
C6_PromptExact ==
    \A j \in 1..Len(prompts) :
        prompts[j] = IF Truthy(stylePrompt)
                     THEN NameOf(j) \o <<"COMMA", "SP">> \o stylePrompt
                     ELSE LiteralPrompt(NameOf(j))

\* The lines of a text, by position: the line of position p is the number
\* of line feeds before p, plus one
LineOf(t, p) == Cardinality({i \in 1..(p - 1) : t[i] = "NL"}) + 1

LineCount(t) == LineOf(t, Len(t) + 1)

\* The positions of line k that hold a character other than whitespace
Inked(t, k) == {i \in 1..Len(t) : t[i] \notin WhiteSpace /\ LineOf(t, i) = k}

NonBlankLines(t) == {LineOf(t, i) : i \in {p \in 1..Len(t) : t[p] \notin WhiteSpace}}

\* Line k from its first to its last character other than whitespace
Core(t, k) ==
    LET ink == Inked(t, k)
        lo == CHOOSE i \in ink : \A j \in ink : i <= j
        hi == CHOOSE i \in ink : \A j \in ink : i >= j
    IN SubSeq(t, lo, hi)

\* C7: for a text with N lines that are non-empty after trimming and M blank
\* or whitespace-only lines, in any interleaving, the loader returns exactly
\* N entries, the j-th being the j-th such line, trimmed.
C7_LoaderKeepsNonBlankLines ==
    pc # "t_read"
        => LET kept == NonBlankLines(text)
           IN /\ Len(ingredients) = Cardinality(kept)
              /\ \A k \in kept :
                    ingredients[Cardinality({j \in kept : j <= k})] = Core(text, k)

\* C7 witness: a line of spaces between two lines that are kept
C7_Witness ==
    /\ pc = "t_loop"
    /\ LineCount(text) = 3
    /\ NonBlankLines(text) = {1, 3}
    /\ Len(ingredients) = 2
    /\ \E i \in 1..Len(text) : text[i] = "SP" /\ LineOf(text, i) = 2

\* C8: every item the loop has processed has a primary name that is non-empty
\* after trimming.
C8_PrimaryNameNonEmpty ==
    \A j \in 1..idx : Trim(NameOf(j)) # <<>>

\* C9: the payload's expiry equals its issued-at timestamp plus the TTL.
C9_ExpiryIsIssuedAtPlusTtl ==
    token # NoToken => token.exp = token.timestamp + TTL_DEFAULT

\* C10: the style-analysis request is issued at most once and has settled
\* before the first generation request; at most one request is outstanding at
\* any time, and it belongs to the item the loop is at; the generation
\* requests follow the input order, and when item k+1's is issued every item
\* up to k is completed or logged as failed.
C10_Sequential ==
    /\ styleCalls <= 1
    /\ Cardinality(inflight) <= 1
    /\ idx >= 1 => <<"style", 0>> \notin inflight
    /\ inflight \subseteq {<<"style", 0>>, <<"gen", idx>>, <<"get", idx>>}
    /\ Len(prompts) = idx
    /\ \A j \in 1..idx : prompts[j] = BuildPrompt(NameOf(j), stylePrompt)
    /\ \A j \in 1..(idx - 1) : status[j] = "completed" \/ Failed(j)

\* C10 witness: the second item's generation request is outstanding after a
\* style analysis and a first item that was downloaded
C10_Witness ==
    /\ pc = "gen_wait"
    /\ idx = 2
    /\ styleCalls = 1
    /\ status[1] = "completed"
    /\ inflight = {<<"gen", 2>>}

====
